---- MODULE Spec2Model ----
(***************************************************************************)
(* Subcontractor research pipeline:                                        *)
(*   ResearchOrchestrator.execute_research  (api/services/research_service)*)
(*   ProjectHistoryParser.enrich_profiles   (core/project_history)         *)
(*   LicenseVerifier.verify_batch           (core/license)                 *)
(*   SubcontractorExtractor.extract_profiles(core/extractor)               *)
(*   SubcontractorScorer                    (core/scoring)                 *)
(*                                                                         *)
(* A Python dict is a record; a key that is absent or None is the empty    *)
(* sequence <<>> and a present value v is <<v>> (fields bond_amount and    *)
(* tx_projects_past_5yrs); an absent string key is "".  A text is the set  *)
(* of lower-cased words that occur in it.                                  *)
(***************************************************************************)
EXTENDS Integers, Sequences, FiniteSets, TLC

\* Bounds of the model.
MaxCandidates == 2

MaxScored == 2

MaxProfiles == 2

VARIABLES
  pc,                \* position of execute_research
  request,           \* the request dict
  candidates,        \* Discovery's output: the url of each candidate
  raw_profiles,      \* Extraction's output
  verified_profiles, \* Verification's output (or the fallback)
  enriched_profiles, \* History's output (or the fallback)
  results,           \* the list execute_research returns
  outcome,           \* per stage: "-", "ok", "empty", "raise", "internal"
  called,            \* the stage services that were called, in order
  stageInput,        \* per stage: the list it was called with, as it was then
  propagated,        \* an exception left execute_research
  scPc,              \* position of SubcontractorScorer.calculate_scores_async
  scConfig,          \* the ScoringConfig
  scCandidates,      \* the candidates given to the scorer
  scSlots,           \* per candidate: the state and result of its executor task
  scRanked,          \* the list calculate_scores returns
  scBreakdown,       \* the ScoreBreakdown of scCandidates[1]
  scTotal,           \* its weighted total
  opPc,              \* a service method called on its own: its name, then "returned"
  args,              \* its arguments, with what the network answers during the call
  ret,               \* what it returned
  enProfiles,        \* enrich_profiles: the caller's profile dicts, written in place
  enTask,            \* per profile: the position and counts of its _enrich_profile task
  processed_urls,    \* ProjectHistoryParser.processed_urls
  semaphore,         \* the permits left in self.semaphore
  fetchPc            \* per page fetch: its position around client.get

orchVars == <<pc, request, candidates, raw_profiles, verified_profiles,
              enriched_profiles, results, outcome, called, stageInput, propagated>>

scorerVars == <<scPc, scConfig, scCandidates, scSlots, scRanked, scBreakdown, scTotal>>

callVars == <<opPc, args, ret>>

historyVars == <<enProfiles, enTask, processed_urls>>

fetchVars == <<semaphore, fetchPc>>

vars == <<orchVars, scorerVars, callVars, historyVars, fetchVars>>

Stages == {"discovery", "extraction", "verification", "history", "scoring"}

None == <<>>

Some(v) == <<v>>

IsSome(o) == o # <<>>

Val(o) == o[1]

----------------------------------------------------------------------------
\* Strings: str.lower() and str.upper() on the strings of the model.

Lower(s) ==
  CASE s = "TX" -> "tx"
    [] s = "Austin" -> "austin"
    [] s = "Dallas" -> "dallas"
    [] s = "HVAC" -> "hvac"
    [] OTHER -> s

Upper(s) ==
  CASE s = "tx" -> "TX"
    [] s = "austin" -> "AUSTIN"
    [] s = "Austin" -> "AUSTIN"
    [] s = "Dallas" -> "DALLAS"
    [] s = "dallas" -> "DALLAS"
    [] s = "hvac" -> "HVAC"
    [] s = "Acme Electric" -> "ACME ELECTRIC"
    [] s = "Bolt Plumbing" -> "BOLT PLUMBING"
    [] s = "Delta Build" -> "DELTA BUILD"
    [] s = "Acme" -> "ACME"
    [] OTHER -> s

\* The lower-cased words of a business name.
NameWords(name) ==
  CASE name = "Acme Electric" -> {"acme", "electric"}
    [] name = "Bolt Plumbing" -> {"bolt", "plumbing"}
    [] name = "Delta Build" -> {"delta", "build"}
    [] name = "Acme" -> {"acme"}
    [] OTHER -> {}

----------------------------------------------------------------------------
\* Requests (ResearchRequest as a dict).

Requests ==
  { [trade |-> "electrical", city |-> "Austin", state |-> "TX", min_bond |-> 2,
     keywords |-> <<>>],
    [trade |-> "hvac", city |-> "austin", state |-> "tx", min_bond |-> 4,
     keywords |-> <<"HVAC", "electric", "">>],
    [trade |-> "plumbing", city |-> "Dallas", state |-> "TX", min_bond |-> 0,
     keywords |-> <<"bond">>] }

\* The urls Discovery may return (each starts with "http"); the last one has no
\* network location, so no domain name can be derived from it.
Urls == {"https://www.acme.com", "https://bolt-plumbing.com", "http:delta.com"}

\* What _process_url extracts from a page fetched with status 200.
Pages ==
  { [business_name |-> "Acme Electric",
     hq_address |-> Some([city |-> "Austin", state |-> "TX"]),
     licensing_text |-> "license number TECL12345", bond_amount |-> Some(3),
     projects |-> 3, evidence_text |-> {"hvac", "project"}],
    [business_name |-> "Bolt Plumbing",
     hq_address |-> None,
     licensing_text |-> "", bond_amount |-> None,
     projects |-> 1, evidence_text |-> {"bond"}],
    [business_name |-> "Delta Build",
     hq_address |-> Some([city |-> "dallas", state |-> "tx"]),
     licensing_text |-> "", bond_amount |-> Some(1),
     projects |-> 5, evidence_text |-> {}],
    [business_name |-> "",
     hq_address |-> None,
     licensing_text |-> "", bond_amount |-> None,
     projects |-> 0, evidence_text |-> {}] }

\* The recent-project counts a site's pages may yield.
TxValues == {0, 1, 5}

\* The license registry (read only after load): BUSINESS_NAME, LICENSE_NUMBER
\* and EXPIRATION_DATE as str() of the cell, "nan" for an empty one.
Registry ==
  << [BUSINESS_NAME |-> "ACME ELECTRIC", LICENSE_NUMBER |-> "TECL12345",
      EXPIRATION_DATE |-> "2031-01-31"],
     [BUSINESS_NAME |-> "BOLT PLUMBING", LICENSE_NUMBER |-> "M-40112",
      EXPIRATION_DATE |-> "2020-06-30"],
     [BUSINESS_NAME |-> "CEDAR MECHANICAL", LICENSE_NUMBER |-> "A1234",
      EXPIRATION_DATE |-> "11/05/2026"],
     [BUSINESS_NAME |-> "DUNE ROOFING", LICENSE_NUMBER |-> "B2345",
      EXPIRATION_DATE |-> "nan"],
     [BUSINESS_NAME |-> "ELM HVAC", LICENSE_NUMBER |-> "C3456",
      EXPIRATION_DATE |-> "31/01/2031"],
     [BUSINESS_NAME |-> "FIR ELECTRIC", LICENSE_NUMBER |-> "D4567",
      EXPIRATION_DATE |-> "01312031"] >>

----------------------------------------------------------------------------
\* sorted(results, key=lambda x: x.score, reverse=True): stable, descending.

InsertByScore(sorted, x) ==
  LET k == Cardinality({i \in 1..Len(sorted) : sorted[i].score >= x.score})
  IN SubSeq(sorted, 1, k) \o <<x>> \o SubSeq(sorted, k + 1, Len(sorted))

RECURSIVE SortedByScore(_)
SortedByScore(rs) ==
  IF rs = <<>> THEN <<>>
  ELSE InsertByScore(SortedByScore(SubSeq(rs, 1, Len(rs) - 1)), rs[Len(rs)])

----------------------------------------------------------------------------
\* SubcontractorExtractor

\* _extract_domain_name: netloc without "www." and the top-level domain, "-" and
\* "_" as spaces, title-cased.
DomainName(url) ==
  CASE url = "https://www.acme.com" -> "Acme"
    [] url = "https://bolt-plumbing.com" -> "Bolt Plumbing"
    [] OTHER -> ""

EmptyPage ==
  [business_name |-> "", hq_address |-> None, licensing_text |-> "",
   bond_amount |-> None, projects |-> 0, evidence_text |-> {}]

\* The outcome of client.get(url): the status code and, for 200, the page.
FetchOutcomes ==
  {[status |-> 200, page |-> p] : p \in Pages}
    \cup {[status |-> 404, page |-> EmptyPage]}

CreateMinimalProfile(url) ==
  [business_name |-> DomainName(url), website |-> url, hq_address |-> None,
   city |-> "", state |-> "", licensing_text |-> "", bond_amount |-> None,
   projects |-> 0, evidence_text |-> {}, lic_active |-> FALSE,
   lic_number |-> "", lic_match_score |-> 0, lic_expiry_date |-> None,
   tx_projects_past_5yrs |-> None]

ProcessUrl(url, fetch) ==
  IF fetch.status # 200 THEN CreateMinimalProfile(url)
  ELSE LET page == fetch.page
       IN [business_name |-> page.business_name, website |-> url,
           hq_address |-> page.hq_address,
           city |-> IF IsSome(page.hq_address) THEN Val(page.hq_address).city ELSE "",
           state |-> IF IsSome(page.hq_address) THEN Val(page.hq_address).state ELSE "",
           licensing_text |-> page.licensing_text,
           bond_amount |-> page.bond_amount, projects |-> page.projects,
           evidence_text |-> page.evidence_text, lic_active |-> FALSE,
           lic_number |-> "", lic_match_score |-> 0, lic_expiry_date |-> None,
           tx_projects_past_5yrs |-> None]

ValidateProfile(profile) ==
  profile.business_name # "" /\ profile.website # ""

\* extract_profiles on urls that miss the result cache: one profile per url, the
\* minimal profile where the extracted one does not validate.
ExtractProfiles(urls, fetches) ==
  [i \in 1..Len(urls) |->
     LET result == ProcessUrl(urls[i], fetches[i])
     IN IF ValidateProfile(result) THEN result ELSE CreateMinimalProfile(urls[i])]

----------------------------------------------------------------------------
\* LicenseVerifier

\* _extract_business_name_from_website: netloc without "www." and the top-level
\* domain, upper-cased.
NameFromWebsite(website) ==
  CASE website = "https://www.acme.com" -> "ACME"
    [] website = "https://bolt-plumbing.com" -> "BOLT-PLUMBING"
    [] OTHER -> ""

\* _extract_license_number on a text "license number <token>": after "number"
\* the greedy (?:.{0,5}) takes the blank and as many characters of the token as
\* leave five for the group ([A-Z0-9-]{5,15}).
ExtractLicenseNumber(license_text) ==
  LET keyword == "license number "
      found == /\ Len(license_text) > Len(keyword)
               /\ SubSeq(license_text, 1, Len(keyword)) = keyword
      token == SubSeq(license_text, Len(keyword) + 1, Len(license_text))
      taken == IF Len(token) + 1 - 5 < 5 THEN Len(token) + 1 - 5 ELSE 5
      last == IF Len(token) < taken + 15 THEN Len(token) ELSE taken + 14
  IN IF ~found \/ Len(token) < 5 THEN None
     ELSE Some(SubSeq(token, taken, last))

\* license_number_index: the row of a license number, 0 when it has none.
LicenseNumberIndex(number) ==
  LET rows == {i \in 1..Len(Registry) : Registry[i].LICENSE_NUMBER = number}
  IN IF rows = {} THEN 0 ELSE CHOOSE i \in rows : \A j \in rows : j <= i

\* fuzz.token_set_ratio: the registry row that scores best for the name and its
\* score, rounded down.
TokenSetRatio(business_name) ==
  CASE business_name = "ACME ELECTRIC" -> [row |-> 1, score |-> 100]
    [] business_name = "ACME" -> [row |-> 1, score |-> 100]
    [] business_name = "ACME ELEC" -> [row |-> 1, score |-> 81]
    [] business_name = "ACME ELECTRICAL" -> [row |-> 1, score |-> 92]
    [] business_name = "BOLT PLUMBING" -> [row |-> 2, score |-> 100]
    [] business_name = "BOLT-PLUMBING" -> [row |-> 2, score |-> 92]
    [] business_name = "BOLT PLUMBERS" -> [row |-> 2, score |-> 76]
    [] business_name = "DELTA BUILD" -> [row |-> 1, score |-> 33]
    [] OTHER -> [row |-> 1, score |-> 0]

\* fuzz.partial_ratio, likewise.
PartialRatio(business_name) ==
  CASE business_name = "ACME ELEC" -> [row |-> 1, score |-> 100]
    [] business_name = "BOLT PLUMBERS" -> [row |-> 2, score |-> 87]
    [] business_name = "DELTA BUILD" -> [row |-> 5, score |-> 46]
    [] business_name = "ACME ELECTRICAL" -> [row |-> 1, score |-> 100]
    [] OTHER -> TokenSetRatio(business_name)

ExtractOneNoCutoff(best, score_cutoff) == best

\* process.extractOne(..., score_cutoff=...): None (row 0) for a best score
\* below the cutoff.
ExtractOne(best, score_cutoff) ==
  IF best.score >= score_cutoff THEN best ELSE [row |-> 0, score |-> 0]

\* The token-set match with cutoff 85, else the partial match with cutoff 90.
FuzzyMatch(business_name) ==
  LET match == ExtractOne(TokenSetRatio(business_name), 85)
  IN IF match.row # 0 THEN match
     ELSE ExtractOne(PartialRatio(business_name), 90)

\* datetime.now().date(), as <<year, month, day>>
Today == <<2026, 11, 5>>

\* _parse_expiry_date: eight digits are read as %m%d%Y; else the first of
\* %m/%d/%Y, %Y-%m-%d and %d-%m-%Y that fits; strptime rejects a month or day
\* that does not exist.
ParseExpiryDate(date_str) ==
  LET Digit(i) == CASE SubSeq(date_str, i, i) = "0" -> 0
                    [] SubSeq(date_str, i, i) = "1" -> 1
                    [] SubSeq(date_str, i, i) = "2" -> 2
                    [] SubSeq(date_str, i, i) = "3" -> 3
                    [] SubSeq(date_str, i, i) = "4" -> 4
                    [] SubSeq(date_str, i, i) = "5" -> 5
                    [] SubSeq(date_str, i, i) = "6" -> 6
                    [] SubSeq(date_str, i, i) = "7" -> 7
                    [] SubSeq(date_str, i, i) = "8" -> 8
                    [] SubSeq(date_str, i, i) = "9" -> 9
                    [] OTHER -> -1
      Digits(S) == \A i \in S : Digit(i) >= 0
      Two(i) == 10 * Digit(i) + Digit(i + 1)
      Four(i) == 100 * Two(i) + Two(i + 2)
      At(i) == SubSeq(date_str, i, i)
      Leap(y) == y % 4 = 0 /\ (y % 100 # 0 \/ y % 400 = 0)
      DaysIn(m, y) == CASE m \in {4, 6, 9, 11} -> 30
                        [] m = 2 -> IF Leap(y) THEN 29 ELSE 28
                        [] OTHER -> 31
      Date(y, m, d) == IF y >= 1 /\ m \in 1..12 /\ d \in 1..DaysIn(m, y)
                       THEN Some(<<y, m, d>>) ELSE None
  IN CASE Len(date_str) = 8 /\ Digits(1..8) -> Date(Four(5), Two(1), Two(3))
       [] Len(date_str) = 10 /\ At(3) = "/" /\ At(6) = "/"
            /\ Digits({1, 2, 4, 5, 7, 8, 9, 10}) -> Date(Four(7), Two(1), Two(4))
       [] Len(date_str) = 10 /\ At(5) = "-" /\ At(8) = "-"
            /\ Digits({1, 2, 3, 4, 6, 7, 9, 10}) -> Date(Four(1), Two(6), Two(9))
       [] Len(date_str) = 10 /\ At(3) = "-" /\ At(6) = "-"
            /\ Digits({1, 2, 4, 5, 7, 8, 9, 10}) -> Date(Four(7), Two(4), Two(1))
       [] OTHER -> None

DateNotBefore(a, b) ==
  \/ a[1] > b[1]
  \/ a[1] = b[1] /\ a[2] > b[2]
  \/ a[1] = b[1] /\ a[2] = b[2] /\ a[3] >= b[3]

\* expiry_date > datetime.now().date()
DateAfter(a, b) ==
  \/ a[1] > b[1]
  \/ a[1] = b[1] /\ a[2] > b[2]
  \/ a[1] = b[1] /\ a[2] = b[2] /\ a[3] > b[3]

CreateVerifiedResponse(profile, row, score) ==
  LET expiry_date == ParseExpiryDate(Registry[row].EXPIRATION_DATE)
  IN [profile EXCEPT
        !.lic_active = IsSome(expiry_date) /\ DateAfter(Val(expiry_date), Today),
        !.lic_number = Registry[row].LICENSE_NUMBER,
        !.lic_match_score = score,
        !.lic_expiry_date = IF IsSome(expiry_date) THEN expiry_date
                            ELSE Some("Unknown")]

\* The dict returned where nothing matched or matching raised: it has no key
\* lic_expiry_date.
NoMatchResponse(profile) ==
  [profile EXCEPT !.lic_active = FALSE, !.lic_number = "Unknown",
                  !.lic_match_score = 0]

VerifyProfile(profile) ==
  LET stated == Upper(profile.business_name)
      business_name == IF stated = "" /\ profile.website # ""
                       THEN NameFromWebsite(profile.website) ELSE stated
      extracted == ExtractLicenseNumber(profile.licensing_text)
      exact == IF IsSome(extracted) THEN LicenseNumberIndex(Val(extracted)) ELSE 0
      match == FuzzyMatch(business_name)
  IN IF business_name = "" THEN NoMatchResponse(profile)
     ELSE IF exact # 0 THEN CreateVerifiedResponse(profile, exact, 100)
     ELSE IF match.row # 0 THEN CreateVerifiedResponse(profile, match.row, match.score)
     ELSE NoMatchResponse(profile)

\* verify_batch: a new dict per profile, in the order of the input.
VerifyBatch(profiles) ==
  [i \in 1..Len(profiles) |-> VerifyProfile(profiles[i])]

----------------------------------------------------------------------------
\* ProjectHistoryParser

\* The writes of _enrich_profile, made to the caller's dicts in place: count[i]
\* is the count written to profile i.  gather waits for every profile.
WriteCounts(profiles, count) ==
  [i \in 1..Len(profiles) |->
     [profiles[i] EXCEPT !.tx_projects_past_5yrs = count[i]]]

\* The loop of the handler of enrich_profiles, as far as profile k:
\* profile["tx_projects_past_5yrs"] = 0
ZeroFirst(profiles, k) ==
  [i \in 1..Len(profiles) |->
     IF i <= k THEN [profiles[i] EXCEPT !.tx_projects_past_5yrs = Some(0)]
     ELSE profiles[i]]

\* The handler of enrich_profiles: every profile's count is set to 0.
ZeroCounts(profiles) ==
  ZeroFirst(profiles, Len(profiles))

IsCompliant(profile) ==
  IsSome(profile.tx_projects_past_5yrs) /\ Val(profile.tx_projects_past_5yrs) > 0

\* compliant_profiles = [p for p in result if p.get("tx_projects_past_5yrs", 0) > 0]
CompliantProfiles(profiles) == SelectSeq(profiles, IsCompliant)

----------------------------------------------------------------------------
\* ResearchOrchestrator: scoring and formatting

Min(a, b) == IF a <= b THEN a ELSE b

Max(a, b) == IF a >= b THEN a ELSE b

\* _count_tx_projects
CountTxProjects(profile) ==
  IF IsSome(profile.tx_projects_past_5yrs)
  THEN Val(profile.tx_projects_past_5yrs)
  ELSE profile.projects

LocationScore(profile, req) ==
  IF profile.state # "" /\ req.state # "" /\ Upper(profile.state) = Upper(req.state)
  THEN 20 + (IF profile.city # "" /\ req.city # ""
                  /\ Lower(profile.city) = Lower(req.city)
             THEN 10 ELSE 0)
  ELSE 0

LicenseScore(profile) ==
  IF profile.lic_active THEN 20
  ELSE IF profile.lic_number # "" /\ profile.lic_number # "Unknown" THEN 10
  ELSE 0

BondScore(profile, req) ==
  LET bond_amount == IF IsSome(profile.bond_amount) THEN Val(profile.bond_amount) ELSE 0
      min_bond == req.min_bond
  IN IF bond_amount # 0 /\ min_bond # 0
     THEN IF bond_amount >= min_bond THEN 30
          ELSE IF 2 * bond_amount >= min_bond THEN 15
          ELSE IF bond_amount > 0 THEN 5
          ELSE 0
     ELSE 0

ProjectScoreUncapped(profile) ==
  5 * CountTxProjects(profile)

ProjectScore(profile) ==
  LET tx_projects == CountTxProjects(profile)
  IN IF tx_projects >= 4 THEN 20 ELSE Min(20, tx_projects * 5)

\* The words of f"{profile_name} {evidence_text}".lower()
ScoreText(profile) == NameWords(profile.business_name) \cup profile.evidence_text

KeywordScore(profile, req) ==
  Min(10, 2 * Cardinality({i \in 1..Len(req.keywords) :
                             /\ req.keywords[i] # ""
                             /\ Lower(req.keywords[i]) \in ScoreText(profile)}))

\* _calculate_score
CalculateScore(profile, req) ==
  Min(100, LocationScore(profile, req) + LicenseScore(profile)
             + BondScore(profile, req) + ProjectScore(profile)
             + KeywordScore(profile, req))

\* _parse_bond_amount
ParseBondAmount(profile, min_bond) ==
  IF IsSome(profile.bond_amount) THEN Val(profile.bond_amount)
  ELSE IF "bond" \in profile.evidence_text THEN min_bond
  ELSE 0

HasWebsiteUnchecked(profile) == TRUE

\* if not profile.get("website"): continue
HasWebsite(profile) == profile.website # ""

\* The city and state of a result: the profile's, else the request's, else the
\* tail of hq_address.
ResultCity(profile, req) ==
  LET city == IF profile.city # "" THEN profile.city ELSE req.city
      state == IF profile.state # "" THEN profile.state ELSE req.state
  IN IF IsSome(profile.hq_address) /\ (city = "" \/ state = "") /\ city = ""
     THEN Val(profile.hq_address).city ELSE city

ResultState(profile, req) ==
  LET city == IF profile.city # "" THEN profile.city ELSE req.city
      state == IF profile.state # "" THEN profile.state ELSE req.state
  IN IF IsSome(profile.hq_address) /\ (city = "" \/ state = "") /\ state = ""
     THEN Val(profile.hq_address).state ELSE state

\* The ResearchResult of one profile.
FormatResult(profile, req) ==
  [name |-> IF profile.business_name # "" THEN profile.business_name ELSE "Unknown",
   website |-> profile.website,
   city |-> ResultCity(profile, req),
   state |-> ResultState(profile, req),
   lic_active |-> profile.lic_active,
   lic_number |-> IF profile.lic_number # "" THEN profile.lic_number
                  ELSE IF profile.licensing_text # "" THEN profile.licensing_text
                  ELSE "Unknown",
   bond_amount |-> ParseBondAmount(profile, req.min_bond),
   tx_projects_past_5yrs |-> IF IsSome(profile.tx_projects_past_5yrs)
                             THEN Val(profile.tx_projects_past_5yrs) ELSE 0,
   score |-> CalculateScore(profile, req),
   evidence_url |-> profile.website]

\* _format_results
FormatResults(profiles, req) ==
  LET kept == SelectSeq(profiles, HasWebsite)
  IN [i \in 1..Len(kept) |-> FormatResult(kept[i], req)]

RankResultsUnsorted(rs) == rs

\* return sorted(results, key=lambda x: x.score, reverse=True)
RankResults(rs) == SortedByScore(rs)

----------------------------------------------------------------------------
\* SubcontractorScorer.  A component score is a whole number of parts: experience
\* in 1/500, license in 1/1825, bonding in 1/(3 * min_bond), geography in
\* 1/300, reputation in 1/10.  project_quality_score is in tenths; a value the
\* code replaces by its default (0 or None) is 0.

ScorerConfigs ==
  { [min_bond |-> 2, target_city |-> "Austin", target_state |-> "TX"],
    [min_bond |-> 4, target_city |-> "", target_state |-> "tx"] }

\* ScoredCandidate(**valid_fields) with the dataclass defaults
DefaultCandidate ==
  [name |-> "Unknown", city |-> "", state |-> "", lic_active |-> FALSE,
   bond_amount |-> 0, tx_projects_past_5yrs |-> 0, distance_miles |-> 0,
   project_quality_score |-> 5, days_until_expiry |-> 365,
   positive_reviews |-> 0, years_in_business |-> 0, awards |-> 0,
   union_member |-> FALSE]

\* _dict_to_candidate on a profile dict: the keys that are fields of
\* ScoredCandidate are kept (a profile has no key "name").
DictToCandidate(data) ==
  [DefaultCandidate EXCEPT
     !.city = data.city, !.state = data.state, !.lic_active = data.lic_active,
     !.bond_amount = IF IsSome(data.bond_amount) THEN Val(data.bond_amount) ELSE 0,
     !.tx_projects_past_5yrs = IF IsSome(data.tx_projects_past_5yrs)
                               THEN Val(data.tx_projects_past_5yrs) ELSE 0]

\* ScoringConfig(min_bond, target_city, target_state) of a request
ConfigOf(req) ==
  [min_bond |-> req.min_bond, target_city |-> req.city, target_state |-> req.state]

\* _experience_score, in 1/500
ExperienceScore(c) ==
  LET base_projects == c.tx_projects_past_5yrs
      project_quality == IF c.project_quality_score = 0 THEN 5
                         ELSE c.project_quality_score
  IN Min(5, base_projects) * (70 + 3 * project_quality)

\* _license_score, in 1/1825
ScorerLicenseScore(c) ==
  IF ~c.lic_active THEN 0
  ELSE LET days_until_expiry == IF c.days_until_expiry = 0 THEN 365
                                ELSE c.days_until_expiry
       IN 4 * Min(365, days_until_expiry) + 365

\* _bonding_score, in 1/(3 * min_bond)
BondingScore(c, config) ==
  IF 2 * c.bond_amount < config.min_bond THEN 0
  ELSE Min(3 * config.min_bond, Max(0, 2 * c.bond_amount - config.min_bond))

\* _geographic_score, in 1/300
GeographicScore(c, config) ==
  IF Lower(c.city) = Lower(config.target_city) THEN 300
  ELSE IF Lower(c.state) = Lower(config.target_state)
  THEN LET distance_miles == IF c.distance_miles = 0 THEN 100 ELSE c.distance_miles
       IN Max(90, 300 - distance_miles)
  ELSE 0

\* _reputation_score, in 1/10
ReputationScore(c) ==
  Min(10, (IF c.positive_reviews > 5 THEN 3 ELSE 0)
          + (IF c.years_in_business > 5 THEN 2 ELSE 0)
          + (IF c.awards > 0 THEN 2 ELSE 0)
          + (IF c.union_member THEN 3 ELSE 0))

\* The body of _calculate_score_breakdown
CalculateScoreBreakdown(c, config) ==
  [experience |-> ExperienceScore(c),
   license |-> ScorerLicenseScore(c),
   bonding |-> BondingScore(c, config),
   geography |-> GeographicScore(c, config),
   reputation |-> ReputationScore(c)]

\* The parts of a point in which a total is counted.
TotalDen(config) == 109500 * config.min_bond

\* _compute_total_score: sum(weight * component * 100), in 1/TotalDen points
ComputeTotalScore(bd, config) ==
  30 * bd.experience * 219 * config.min_bond
    + 25 * bd.license * 60 * config.min_bond
    + 20 * bd.bonding * 36500
    + 15 * bd.geography * 365 * config.min_bond
    + 10 * bd.reputation * 10950 * config.min_bond

\* round(total_score, 2), in hundredths of a point
RoundScore(total, config) ==
  LET den == TotalDen(config)
      whole == total \div den
      rest == total % den
  IN 100 * whole + (200 * rest + den) \div (2 * den)

\* _calculate_score_breakdown is wrapped in lru_cache, which hashes its
\* arguments: ScoredCandidate is a dataclass with eq and without frozen, so its
\* __hash__ is None and the call raises TypeError.
Hashable(c) == FALSE

NoBreakdown ==
  [experience |-> 0, license |-> 0, bonding |-> 0, geography |-> 0,
   reputation |-> 0]

FailedSlot(c) ==
  [state |-> "failed", candidate |-> c, score |-> 0,
   score_breakdown |-> NoBreakdown]

PendingSlot(c) == [FailedSlot(c) EXCEPT !.state = "pending"]

\* The dict _process_candidate builds: asdict(candidate_obj) updated with
\* score = round(total_score, 2) and score_breakdown
ScoredSlot(c, config) ==
  LET bd == CalculateScoreBreakdown(c, config)
  IN [state |-> "scored", candidate |-> c,
      score |-> RoundScore(ComputeTotalScore(bd, config), config),
      score_breakdown |-> bd]

\* _process_candidate: the scored dict, or None when scoring raised
ProcessCandidate(c, config) ==
  IF Hashable(c) THEN ScoredSlot(c, config) ELSE FailedSlot(c)

\* The sort key of _rank_candidates, compared as tuples.
RankBefore(a, b) ==
  LET ka == <<-a.score, -a.score_breakdown.experience, -a.score_breakdown.license,
              -a.candidate.bond_amount, -a.candidate.years_in_business>>
      kb == <<-b.score, -b.score_breakdown.experience, -b.score_breakdown.license,
              -b.candidate.bond_amount, -b.candidate.years_in_business>>
  IN \E i \in 1..5 : ka[i] < kb[i] /\ \A j \in 1..(i - 1) : ka[j] = kb[j]

InsertRanked(sorted, x) ==
  LET k == Cardinality({i \in 1..Len(sorted) : ~RankBefore(x, sorted[i])})
  IN SubSeq(sorted, 1, k) \o <<x>> \o SubSeq(sorted, k + 1, Len(sorted))

\* _rank_candidates: sorted(candidates, key=...), stable
RECURSIVE RankCandidates(_)
RankCandidates(cs) ==
  IF cs = <<>> THEN <<>>
  ELSE InsertRanked(RankCandidates(SubSeq(cs, 1, Len(cs) - 1)), cs[Len(cs)])

IsValidSlot(slot) == slot.state = "scored"

\* The candidates of the scoring runs.
CandidatePool ==
  { [DefaultCandidate EXCEPT !.name = "Acme Electric", !.city = "Austin",
       !.state = "TX", !.lic_active = TRUE, !.bond_amount = 3,
       !.tx_projects_past_5yrs = 5],
    [DefaultCandidate EXCEPT !.name = "Bolt Plumbing", !.state = "TX",
       !.bond_amount = 1, !.tx_projects_past_5yrs = 1, !.distance_miles = 150],
    [DefaultCandidate EXCEPT !.name = "Delta Build", !.city = "dallas",
       !.state = "tx", !.lic_active = TRUE, !.days_until_expiry = 73,
       !.bond_amount = 8, !.years_in_business = 9, !.union_member = TRUE],
    DefaultCandidate }

CandidateRuns ==
  UNION {[1..n -> CandidatePool] : n \in 0..MaxScored}

\* The candidates of the single-candidate scoring: any values of the scored fields.
CandidateValues ==
  { [DefaultCandidate EXCEPT !.tx_projects_past_5yrs = tx,
       !.project_quality_score = quality, !.lic_active = active,
       !.days_until_expiry = days, !.bond_amount = bond,
       !.distance_miles = miles, !.city = place[1], !.state = place[2],
       !.union_member = member] :
      tx \in {-1, 0, 2, 5, 6}, quality \in {0, 5, 10, 30},
      active \in BOOLEAN, days \in {-365, 0, 100, 365, 730},
      bond \in {-1, 0, 1, 3, 8}, miles \in {-300, 0, 150, 400},
      place \in {<<"Austin", "TX">>, <<"Dallas", "TX">>, <<"", "OK">>},
      member \in BOOLEAN }

----------------------------------------------------------------------------
\* ResearchOrchestrator.execute_research

HandlesErrorButHistory(stage) == stage # "history"

\* Every phase runs in a try block that catches Exception, inside an outer one.
HandlesError(stage) == TRUE

NextAfterErrorDegradeAll(stage) ==
  CASE stage = "discovery" -> "extraction"
    [] stage = "extraction" -> "verification"
    [] stage = "verification" -> "history"
    [] stage = "history" -> "scoring"
    [] OTHER -> "done"

NextAfterErrorReturn(stage) == "done"

\* Where a phase's except clause continues: Discovery, Extraction and Scoring
\* return [], Verification and History go on with their input.
NextAfterError(stage) ==
  CASE stage = "verification" -> "history"
    [] stage = "history" -> "scoring"
    [] OTHER -> "done"

HistoryNoFallback(enriched, verified) == enriched

\* if not enriched_profiles: enriched_profiles = verified_profiles
HistoryFallback(enriched, verified) ==
  IF enriched = <<>> THEN verified ELSE enriched

\* if not verified_profiles: verified_profiles = raw_profiles
VerificationFallback(verified, raw) ==
  IF verified = <<>> THEN raw ELSE verified

\* Sequences of distinct urls, at most MaxCandidates long.
CandidateLists ==
  {cs \in UNION {[1..n -> Urls] : n \in 0..MaxCandidates} :
     \A i, j \in 1..Len(cs) : i # j => cs[i] # cs[j]}

Call(stage, input) ==
  /\ called' = Append(called, stage)
  /\ stageInput' = [stageInput EXCEPT ![stage] = input]

\* The stage raised: the except clause of its phase.
Raise(stage) ==
  /\ outcome' = [outcome EXCEPT ![stage] = "raise"]
  /\ propagated' = ~HandlesError(stage)
  /\ pc' = NextAfterError(stage)

Finish(stage, how, next) ==
  /\ outcome' = [outcome EXCEPT ![stage] = how]
  /\ propagated' = propagated
  /\ pc' = next

\* No enrich_profiles call is under way.
HistoryIdle ==
  /\ enProfiles = <<>>
  /\ enTask = <<>>
  /\ processed_urls = {}

\* No page fetch is under way.
FetchIdle ==
  /\ semaphore = 0
  /\ fetchPc = <<>>

\* No service method is called on its own.
ServicesIdle ==
  /\ opPc = "idle"
  /\ args = <<>>
  /\ ret = <<>>
  /\ HistoryIdle
  /\ FetchIdle

\* No scoring run is under way.
ScorerIdle ==
  /\ scPc = "idle"
  /\ scConfig = CHOOSE config \in ScorerConfigs : config.min_bond = 2
  /\ scCandidates = <<>>
  /\ scSlots = <<>>
  /\ scRanked = <<>>
  /\ scBreakdown = NoBreakdown
  /\ scTotal = 0

Init ==
  /\ pc = "discovery"
  /\ request \in Requests
  /\ candidates = <<>>
  /\ raw_profiles = <<>>
  /\ verified_profiles = <<>>
  /\ enriched_profiles = <<>>
  /\ results = <<>>
  /\ outcome = [s \in Stages |-> "-"]
  /\ called = <<>>
  /\ stageInput = [s \in Stages |-> <<>>]
  /\ propagated = FALSE
  /\ ScorerIdle
  /\ ServicesIdle

Discovery ==
  /\ pc = "discovery"
  /\ Call("discovery", <<>>)
  /\ \/ /\ Raise("discovery")
        /\ UNCHANGED candidates
     \/ \E cands \in CandidateLists :
          /\ candidates' = cands
          /\ IF cands = <<>>
             THEN Finish("discovery", "empty", "done")
             ELSE Finish("discovery", "ok", "extraction")
  /\ UNCHANGED <<request, raw_profiles, verified_profiles, enriched_profiles, results>>
  /\ UNCHANGED scorerVars
  /\ UNCHANGED callVars
  /\ UNCHANGED historyVars
  /\ UNCHANGED fetchVars

Extraction ==
  /\ pc = "extraction"
  /\ LET urls == SelectSeq(candidates, LAMBDA u : u # "")
     IN IF urls = <<>>
        THEN /\ Finish("extraction", "empty", "done")
             /\ UNCHANGED <<called, stageInput, raw_profiles>>
        ELSE /\ Call("extraction", urls)
             /\ \/ /\ Raise("extraction")
                   /\ UNCHANGED raw_profiles
                \/ \E fetches \in [1..Len(urls) -> FetchOutcomes] :
                     /\ raw_profiles' = ExtractProfiles(urls, fetches)
                     /\ IF raw_profiles' = <<>>
                        THEN Finish("extraction", "empty", "done")
                        ELSE Finish("extraction", "ok", "verification")
  /\ UNCHANGED <<request, candidates, verified_profiles, enriched_profiles, results>>
  /\ UNCHANGED scorerVars
  /\ UNCHANGED callVars
  /\ UNCHANGED historyVars
  /\ UNCHANGED fetchVars

Verification ==
  /\ pc = "verification"
  /\ Call("verification", raw_profiles)
  /\ \/ /\ Raise("verification")
        /\ verified_profiles' = raw_profiles
     \/ /\ verified_profiles' = VerificationFallback(VerifyBatch(raw_profiles), raw_profiles)
        /\ Finish("verification", "ok", "history")
  /\ UNCHANGED <<request, candidates, raw_profiles, enriched_profiles, results>>
  /\ UNCHANGED scorerVars
  /\ UNCHANGED callVars
  /\ UNCHANGED historyVars
  /\ UNCHANGED fetchVars

\* enrich_profiles writes to the dicts of its argument; they are the dicts of
\* raw_profiles too when Verification raised.  It returns the compliant
\* profiles; or its handler zeroes every count, whatever was written before, and
\* returns its argument; or an exception leaves it, which only its handler can
\* raise: before or after the writes of _enrich_profile, and part of the way
\* through the handler's loop.
History ==
  /\ pc = "history"
  /\ Call("history", verified_profiles)
  /\ LET n == Len(verified_profiles)
     IN \/ \E count \in [1..n -> {Some(t) : t \in TxValues}] :
             LET written == WriteCounts(verified_profiles, count)
                 returned == CompliantProfiles(written)
             IN /\ verified_profiles' = written
                /\ enriched_profiles' = HistoryFallback(returned, written)
                /\ Finish("history", IF returned = <<>> THEN "empty" ELSE "ok", "scoring")
        \/ /\ verified_profiles' = ZeroCounts(verified_profiles)
           /\ enriched_profiles' = HistoryFallback(verified_profiles', verified_profiles')
           /\ Finish("history", "internal", "scoring")
        \/ \E base \in {verified_profiles}
                         \cup {WriteCounts(verified_profiles, count) :
                                 count \in [1..n -> {Some(t) : t \in TxValues}]} :
             \E k \in 0..n :
               /\ verified_profiles' = ZeroFirst(base, k)
               /\ enriched_profiles' = verified_profiles'
               /\ Raise("history")
  /\ raw_profiles' = IF outcome["verification"] = "raise"
                     THEN verified_profiles' ELSE raw_profiles
  /\ UNCHANGED <<request, candidates, results>>
  /\ UNCHANGED scorerVars
  /\ UNCHANGED callVars
  /\ UNCHANGED historyVars
  /\ UNCHANGED fetchVars

Scoring ==
  /\ pc = "scoring"
  /\ Call("scoring", enriched_profiles)
  /\ \/ /\ Raise("scoring")
        /\ results' = <<>>
     \/ /\ results' = RankResults(FormatResults(enriched_profiles, request))
        /\ Finish("scoring", IF results' = <<>> THEN "empty" ELSE "ok", "done")
  /\ UNCHANGED <<request, candidates, raw_profiles, verified_profiles, enriched_profiles>>
  /\ UNCHANGED scorerVars
  /\ UNCHANGED callVars
  /\ UNCHANGED historyVars
  /\ UNCHANGED fetchVars

Next == Discovery \/ Extraction \/ Verification \/ History \/ Scoring

Spec == Init /\ [][Next]_vars

----------------------------------------------------------------------------
\* The scoring phase of execute_research on any list of profiles.

PageNamed(name) == CHOOSE page \in Pages : page.business_name = name

FormatPool ==
  LET acme == [VerifyProfile(ProcessUrl("https://www.acme.com",
                  [status |-> 200, page |-> PageNamed("Acme Electric")]))
                 EXCEPT !.tx_projects_past_5yrs = Some(1)]
      bolt == [VerifyProfile(ProcessUrl("https://bolt-plumbing.com",
                  [status |-> 200, page |-> PageNamed("Bolt Plumbing")]))
                 EXCEPT !.tx_projects_past_5yrs = Some(5)]
      delta == ProcessUrl("http:delta.com",
                  [status |-> 200, page |-> PageNamed("Delta Build")])
  IN { acme, bolt, delta,
       [acme EXCEPT !.website = ""],
       [delta EXCEPT !.website = "", !.business_name = ""],
       CreateMinimalProfile("https://bolt-plumbing.com") }

FormatRuns == UNION {[1..n -> FormatPool] : n \in 0..MaxProfiles}

InitFormat ==
  /\ pc = "scoring"
  /\ request \in Requests
  /\ enriched_profiles \in FormatRuns
  /\ candidates = <<>>
  /\ raw_profiles = <<>>
  /\ verified_profiles = <<>>
  /\ results = <<>>
  /\ outcome = [s \in Stages |-> "-"]
  /\ called = <<>>
  /\ stageInput = [s \in Stages |-> <<>>]
  /\ propagated = FALSE
  /\ ScorerIdle
  /\ ServicesIdle

SpecFormat == InitFormat /\ [][Scoring]_vars

----------------------------------------------------------------------------
\* SubcontractorScorer.calculate_scores_async

\* execute_research is not running.
OrchestratorIdle ==
  /\ pc = "idle"
  /\ request = CHOOSE r \in Requests : r.keywords = <<>>
  /\ candidates = <<>>
  /\ raw_profiles = <<>>
  /\ verified_profiles = <<>>
  /\ enriched_profiles = <<>>
  /\ results = <<>>
  /\ outcome = [s \in Stages |-> "-"]
  /\ called = <<>>
  /\ stageInput = [s \in Stages |-> <<>>]
  /\ propagated = FALSE

InitScorer ==
  /\ OrchestratorIdle
  /\ ServicesIdle
  /\ scPc = "idle"
  /\ scConfig \in ScorerConfigs
  /\ scCandidates \in CandidateRuns
  /\ scSlots = <<>>
  /\ scRanked = <<>>
  /\ scBreakdown = NoBreakdown
  /\ scTotal = 0

\* if not candidates: return []; else one executor task per candidate
SubmitCandidates ==
  /\ scPc = "idle"
  /\ IF scCandidates = <<>>
     THEN /\ scPc' = "done"
          /\ UNCHANGED scSlots
     ELSE /\ scPc' = "running"
          /\ scSlots' = [i \in 1..Len(scCandidates) |-> PendingSlot(scCandidates[i])]
  /\ UNCHANGED <<scConfig, scCandidates, scRanked, scBreakdown, scTotal>>
  /\ UNCHANGED orchVars
  /\ UNCHANGED callVars
  /\ UNCHANGED historyVars
  /\ UNCHANGED fetchVars

\* One task of the thread pool runs _process_candidate; the tasks end in any order.
RunCandidate(i) ==
  /\ scPc = "running"
  /\ scSlots[i].state = "pending"
  /\ scSlots' = [scSlots EXCEPT ![i] = ProcessCandidate(scCandidates[i], scConfig)]
  /\ UNCHANGED <<scPc, scConfig, scCandidates, scRanked, scBreakdown, scTotal>>
  /\ UNCHANGED orchVars
  /\ UNCHANGED callVars
  /\ UNCHANGED historyVars
  /\ UNCHANGED fetchVars

\* gather returns the results in the order of the tasks; None is dropped; rank
GatherAndRank ==
  /\ scPc = "running"
  /\ \A i \in 1..Len(scSlots) : scSlots[i].state # "pending"
  /\ scRanked' = RankCandidates(SelectSeq(scSlots, IsValidSlot))
  /\ scPc' = "done"
  /\ UNCHANGED <<scConfig, scCandidates, scSlots, scBreakdown, scTotal>>
  /\ UNCHANGED orchVars
  /\ UNCHANGED callVars
  /\ UNCHANGED historyVars
  /\ UNCHANGED fetchVars

NextScorer ==
  \/ SubmitCandidates
  \/ \E i \in 1..Len(scCandidates) : RunCandidate(i)
  \/ GatherAndRank

SpecScorer == InitScorer /\ [][NextScorer]_vars

----------------------------------------------------------------------------
\* The scoring functions of SubcontractorScorer on one candidate.

InitScoreFn ==
  /\ OrchestratorIdle
  /\ ServicesIdle
  /\ scPc = "fn"
  /\ scConfig \in ScorerConfigs
  /\ \E c \in CandidateValues : scCandidates = <<c>>
  /\ scSlots = <<>>
  /\ scRanked = <<>>
  /\ scBreakdown = NoBreakdown
  /\ scTotal = 0

BreakdownStep ==
  /\ scPc = "fn"
  /\ scBreakdown' = CalculateScoreBreakdown(scCandidates[1], scConfig)
  /\ scPc' = "breakdown"
  /\ UNCHANGED <<scConfig, scCandidates, scSlots, scRanked, scTotal>>
  /\ UNCHANGED orchVars
  /\ UNCHANGED callVars
  /\ UNCHANGED historyVars
  /\ UNCHANGED fetchVars

TotalStep ==
  /\ scPc = "breakdown"
  /\ scTotal' = ComputeTotalScore(scBreakdown, scConfig)
  /\ scPc' = "total"
  /\ UNCHANGED <<scConfig, scCandidates, scSlots, scRanked, scBreakdown>>
  /\ UNCHANGED orchVars
  /\ UNCHANGED callVars
  /\ UNCHANGED historyVars
  /\ UNCHANGED fetchVars

NextScoreFn == BreakdownStep \/ TotalStep

SpecScoreFn == InitScoreFn /\ [][NextScoreFn]_vars

----------------------------------------------------------------------------
\* _rank_candidates on a list of scored dicts.

\* Candidates of the ranking: two of equal total where the one of more
\* experience has the smaller bond, two that differ in bond_amount alone.
RankPool ==
  { [DefaultCandidate EXCEPT !.name = "Acme Electric", !.tx_projects_past_5yrs = 5,
       !.project_quality_score = 10],
    [DefaultCandidate EXCEPT !.name = "Bolt Plumbing", !.bond_amount = 8,
       !.positive_reviews = 6, !.years_in_business = 6, !.awards = 1,
       !.union_member = TRUE],
    [DefaultCandidate EXCEPT !.name = "Cobalt Mechanical", !.bond_amount = 9,
       !.positive_reviews = 6, !.years_in_business = 6, !.awards = 1,
       !.union_member = TRUE],
    [DefaultCandidate EXCEPT !.name = "Delta Build", !.city = "dallas",
       !.state = "tx", !.lic_active = TRUE, !.days_until_expiry = 73,
       !.bond_amount = 3, !.years_in_business = 9],
    DefaultCandidate }

RankRuns ==
  UNION {[1..n -> RankPool] : n \in 0..MaxScored}

InitRank ==
  /\ OrchestratorIdle
  /\ ServicesIdle
  /\ scPc = "rank"
  /\ scConfig \in ScorerConfigs
  /\ scCandidates \in RankRuns
  /\ scSlots = [i \in 1..Len(scCandidates) |-> ScoredSlot(scCandidates[i], scConfig)]
  /\ scRanked = <<>>
  /\ scBreakdown = NoBreakdown
  /\ scTotal = 0

RankStep ==
  /\ scPc = "rank"
  /\ scRanked' = RankCandidates(scSlots)
  /\ scPc' = "ranked"
  /\ UNCHANGED <<scConfig, scCandidates, scSlots, scBreakdown, scTotal>>
  /\ UNCHANGED orchVars
  /\ UNCHANGED callVars
  /\ UNCHANGED historyVars
  /\ UNCHANGED fetchVars

SpecRank == InitRank /\ [][RankStep]_vars

----------------------------------------------------------------------------
\* DiscoveryService.find_subcontractors

MaxResults == 2

\* self.min_candidates
min_candidates == 20

\* self.search_engines
search_engines == <<"_search_duckduckgo_lite", "_search_brave", "_search_mojeek">>

\* _build_query: the terms of the query string in order; the string is empty
\* exactly when there are none.
BuildQuery(trade, city, state, keywords) ==
  (IF trade # "" THEN <<trade, "contractor">> ELSE <<>>)
    \o (IF city # "" THEN <<city>> ELSE <<>>)
    \o (IF state # "" THEN <<state>> ELSE <<>>)
    \o <<"(licensed OR certified OR registered)">>
    \o <<"(">> \o (IF keywords # <<>> THEN keywords ELSE <<"commercial">>) \o <<")">>
    \o (IF state # "" /\ Upper(state) = "TX"
        THEN <<"(tdlr OR 'texas department of licensing')">> ELSE <<>>)

\* The urls a search engine may answer; "" is a result without url.
DiscoveryUrls ==
  {"https://www.acme.com", "https://acme.com/about", "https://bolt-plumbing.com",
   "ftp://acme.com/files", ""}

\* url.startswith("http")
StartsWithHttp(url) ==
  url \in {"https://www.acme.com", "https://acme.com/about",
           "https://bolt-plumbing.com", "http:delta.com"}

\* The loop over the results of one engine: a url is appended if it is not
\* empty, starts with http and was not seen.
RECURSIVE AddResults(_, _)
AddResults(cands, urls) ==
  IF urls = <<>> THEN cands
  ELSE LET url == Head(urls)
           fresh == /\ url # ""
                    /\ StartsWithHttp(url)
                    /\ \A i \in 1..Len(cands) : cands[i] # url
       IN AddResults(IF fresh THEN Append(cands, url) ELSE cands, Tail(urls))

\* The loop over self.search_engines from engine e on; a failed search gives
\* no result.
RECURSIVE SearchFrom(_, _, _, _)
SearchFrom(e, cands, searched, responses) ==
  IF e > Len(search_engines) \/ Len(cands) >= min_candidates
  THEN [candidates |-> SubSeq(cands, 1, Min(Len(cands), min_candidates)),
        searched |-> searched]
  ELSE SearchFrom(e + 1, AddResults(cands, responses[e]),
                  Append(searched, search_engines[e]), responses)

FindSubcontractors(a) ==
  IF BuildQuery(a.trade, a.city, a.state, a.keywords) = <<>>
  THEN [candidates |-> <<>>, searched |-> <<>>]
  ELSE SearchFrom(1, <<>>, <<>>, a.responses)

DiscoveryQueries ==
  { [trade |-> "", city |-> "", state |-> "", keywords |-> <<>>],
    [trade |-> "", city |-> "", state |-> "", keywords |-> <<"bond">>],
    [trade |-> "hvac", city |-> "Austin", state |-> "TX", keywords |-> <<>>],
    [trade |-> "", city |-> "Dallas", state |-> "", keywords |-> <<"HVAC">>] }

ResultLists ==
  UNION {[1..n -> DiscoveryUrls] : n \in 0..MaxResults}

InitDiscovery ==
  /\ OrchestratorIdle
  /\ ScorerIdle
  /\ HistoryIdle
  /\ FetchIdle
  /\ opPc = "find_subcontractors"
  /\ \E q \in DiscoveryQueries : \E responses \in [1..3 -> ResultLists] :
       args = [method |-> "find_subcontractors", trade |-> q.trade,
               city |-> q.city, state |-> q.state, keywords |-> q.keywords,
               responses |-> responses]
  /\ ret = <<>>

FindSubcontractorsCall ==
  /\ opPc = "find_subcontractors"
  /\ ret' = FindSubcontractors(args)
  /\ opPc' = "returned"
  /\ UNCHANGED <<args, orchVars, scorerVars, historyVars, fetchVars>>

SpecDiscovery == InitDiscovery /\ [][FindSubcontractorsCall]_vars

----------------------------------------------------------------------------
\* SubcontractorExtractor.extract_profiles

\* The url strings extract_profiles may be given: "acme.com" has no scheme and
\* "http:delta.com" no network location, "" is dropped as not valid.
ExtractUrls == Urls \cup {"acme.com", ""}

\* client.get raises for a url without scheme or host.
Fetchable(url) == url \in {"https://www.acme.com", "https://bolt-plumbing.com"}

\* _generate_cache_key: no trailing "/", "http://" before a url without "://"
CacheKey(url) ==
  CASE url = "acme.com" -> "http://acme.com"
    [] OTHER -> url

\* The states of _result_cache before a call: empty, or holding the profile of
\* an earlier extraction that validated.
ResultCaches ==
  { [k \in {} |-> EmptyPage],
    [k \in {"https://www.acme.com"} |->
       ProcessUrl("https://www.acme.com",
                  [status |-> 200,
                   page |-> CHOOSE pg \in Pages : pg.business_name = "Acme Electric"])] }

\* extract_profiles: the cached profiles of the valid urls, then the profiles of
\* the others; a profile that validates is put in the cache.
ExtractProfilesCall(a) ==
  LET valid_urls == SelectSeq(a.urls, LAMBDA u : u # "")
      cached == SelectSeq(valid_urls, LAMBDA u : CacheKey(u) \in DOMAIN a.cache)
      urls_to_process == SelectSeq(valid_urls, LAMBDA u : CacheKey(u) \notin DOMAIN a.cache)
      fetches == [i \in 1..Len(urls_to_process) |-> a.fetch[urls_to_process[i]]]
      stored == {i \in 1..Len(urls_to_process) :
                   ValidateProfile(ProcessUrl(urls_to_process[i], fetches[i]))}
      keys == {CacheKey(urls_to_process[i]) : i \in stored}
  IN [profiles |-> [i \in 1..Len(cached) |-> a.cache[CacheKey(cached[i])]]
                     \o ExtractProfiles(urls_to_process, fetches),
      cache |-> [k \in DOMAIN a.cache \cup keys |->
                   IF k \in keys
                   THEN LET i == CHOOSE j \in stored :
                                   /\ CacheKey(urls_to_process[j]) = k
                                   /\ \A l \in stored :
                                        CacheKey(urls_to_process[l]) = k => l <= j
                        IN ProcessUrl(urls_to_process[i], fetches[i])
                   ELSE a.cache[k]]]

InitExtract ==
  /\ OrchestratorIdle
  /\ ScorerIdle
  /\ HistoryIdle
  /\ FetchIdle
  /\ opPc = "extract_profiles"
  /\ \E urls \in UNION {[1..n -> ExtractUrls] : n \in 0..MaxCandidates} :
       \E fetch \in [ExtractUrls -> FetchOutcomes] : \E cache \in ResultCaches :
         /\ \A u \in ExtractUrls :
              IF Fetchable(u) /\ \E i \in 1..Len(urls) : urls[i] = u
              THEN TRUE
              ELSE fetch[u] = [status |-> 404, page |-> EmptyPage]
         /\ args = [method |-> "extract_profiles", urls |-> urls,
                    fetch |-> fetch, cache |-> cache]
  /\ ret = <<>>

ExtractProfilesStep ==
  /\ opPc = "extract_profiles"
  /\ ret' = ExtractProfilesCall(args)
  /\ opPc' = "returned"
  /\ UNCHANGED <<args, orchVars, scorerVars, historyVars, fetchVars>>

SpecExtract == InitExtract /\ [][ExtractProfilesStep]_vars

----------------------------------------------------------------------------
\* LicenseVerifier.verify_batch

\* Profiles as the extractor makes them.
VerifyPool ==
  { ProcessUrl("https://www.acme.com", [status |-> 200, page |-> PageNamed("Acme Electric")]),
    ProcessUrl("https://bolt-plumbing.com", [status |-> 200, page |-> PageNamed("Bolt Plumbing")]),
    ProcessUrl("https://bolt-plumbing.com", [status |-> 200, page |-> PageNamed("Delta Build")]),
    CreateMinimalProfile("https://www.acme.com"),
    CreateMinimalProfile("http:delta.com") }

\* Profiles whose page states a license number of the registry, or a name close
\* to a registry name.
LicensedPool ==
  LET delta == ProcessUrl("https://bolt-plumbing.com",
                          [status |-> 200, page |-> PageNamed("Delta Build")])
  IN {[delta EXCEPT !.licensing_text = text] :
        text \in {"license number TECL12345", "license number A1234",
                  "license number B2345", "license number C3456",
                  "license number D4567"}}
     \cup {[delta EXCEPT !.business_name = name] :
             name \in {"ACME ELEC", "ACME ELECTRICAL", "BOLT PLUMBERS"}}

\* verify_batch: _verify_profile of every profile, gathered in input order; a
\* profile whose matching raises gets the dict of the except clause.
VerifyBatchCall(a) ==
  [i \in 1..Len(a.profiles) |->
     IF a.raises[i] THEN NoMatchResponse(a.profiles[i])
     ELSE VerifyProfile(a.profiles[i])]

InitVerify ==
  /\ OrchestratorIdle
  /\ ScorerIdle
  /\ HistoryIdle
  /\ FetchIdle
  /\ opPc = "verify_batch"
  /\ \E profiles \in UNION {[1..n -> VerifyPool \cup LicensedPool] :
                               n \in 0..MaxProfiles} :
       \E raises \in [1..Len(profiles) -> BOOLEAN] :
         args = [method |-> "verify_batch", profiles |-> profiles, raises |-> raises]
  /\ ret = <<>>

VerifyBatchStep ==
  /\ opPc = "verify_batch"
  /\ ret' = VerifyBatchCall(args)
  /\ opPc' = "returned"
  /\ UNCHANGED <<args, orchVars, scorerVars, historyVars, fetchVars>>

SpecVerify == InitVerify /\ [][VerifyBatchStep]_vars

----------------------------------------------------------------------------
\* SubcontractorExtractor._normalize_phone; a phone is the sequence of its
\* characters.

DigitChars == {"0", "1", "2", "3", "4", "5", "6", "7", "8", "9"}

\* re.sub(r'\D', '', phone)
IsDigitChar(ch) == ch \in DigitChars

\* f"({digits[k:k+3]}) {digits[k+3:k+6]}-{digits[k+6:k+10]}"
PhoneFormat(digits, k) ==
  <<"(", digits[k + 1], digits[k + 2], digits[k + 3], ")", " ",
    digits[k + 4], digits[k + 5], digits[k + 6], "-",
    digits[k + 7], digits[k + 8], digits[k + 9], digits[k + 10]>>

NormalizePhoneKeepFirst(phone) ==
  LET digits == SelectSeq(phone, IsDigitChar)
  IN IF Len(digits) = 10 THEN PhoneFormat(digits, 0)
     ELSE IF Len(digits) = 11 /\ digits[1] = "1" THEN PhoneFormat(digits, 0)
     ELSE phone

NormalizePhone(phone) ==
  LET digits == SelectSeq(phone, IsDigitChar)
  IN IF Len(digits) = 10 THEN PhoneFormat(digits, 0)
     ELSE IF Len(digits) = 11 /\ digits[1] = "1" THEN PhoneFormat(digits, 1)
     ELSE phone

\* Phone texts as _extract_phone passes them: an optional country prefix, an
\* area code, an exchange and a line of two to five digits, with separators and
\* an optional extension mark.
PhoneInputs ==
  LET prefixes == {<<>>, <<"+">>, <<"1">>, <<"+", "1">>, <<"2">>, <<"(">>}
      areas == {<<"5", "5", "5">>, <<"1", "2", "3">>}
      separators == {<<>>, <<".">>, <<")", " ">>}
      lines == {<<"4", "5">>, <<"4", "5", "6">>, <<"4", "5", "6", "7">>,
                <<"4", "5", "6", "7", "8">>}
      marks == {<<>>, <<" ", "x">>}
  IN {prefix \o area \o sep1 \o <<"1", "2", "3">> \o sep2 \o line \o mark :
        prefix \in prefixes, area \in areas, sep1 \in separators,
        sep2 \in separators \cup {<<"-">>}, line \in lines, mark \in marks}

InitPhone ==
  /\ OrchestratorIdle
  /\ ScorerIdle
  /\ HistoryIdle
  /\ FetchIdle
  /\ opPc = "_normalize_phone"
  /\ \E phone \in PhoneInputs : args = [method |-> "_normalize_phone", phone |-> phone]
  /\ ret = <<>>

NormalizePhoneCall ==
  /\ opPc = "_normalize_phone"
  /\ ret' = NormalizePhone(args.phone)
  /\ opPc' = "returned"
  /\ UNCHANGED <<args, orchVars, scorerVars, historyVars, fetchVars>>

SpecPhone == InitPhone /\ [][NormalizePhoneCall]_vars

----------------------------------------------------------------------------
\* SubcontractorExtractor._parse_bond.  A text is what the bond pattern can see
\* in it: an amount in halves (5 is "2.5"), the unit spelling after it ("" for
\* none) and whether whitespace and "bond" follow.

\* The bond pattern is compiled with re.IGNORECASE: it accepts every casing of
\* million, M, thousand and K.
BondTexts ==
  [halves : {1, 2, 5, 1000},
   unit : {"", "million", "M", "thousand", "K", "Million", "MILLION", "m", "k",
           "Thousand"},
   bond : BOOLEAN]

\* match.group(2) is looked up in _BOND_MULTIPLIERS as it is spelled; int()
\* truncates.
ParseBond(text) ==
  LET multiplier == CASE text.unit \in {"million", "M"} -> 1000000
                      [] text.unit \in {"thousand", "K"} -> 1000
                      [] OTHER -> 1
  IN IF ~text.bond THEN None
     ELSE Some((text.halves * multiplier) \div 2)

InitBond ==
  /\ OrchestratorIdle
  /\ ScorerIdle
  /\ HistoryIdle
  /\ FetchIdle
  /\ opPc = "_parse_bond"
  /\ \E text \in BondTexts : args = [method |-> "_parse_bond", text |-> text]
  /\ ret = <<>>

ParseBondCall ==
  /\ opPc = "_parse_bond"
  /\ ret' = ParseBond(args.text)
  /\ opPc' = "returned"
  /\ UNCHANGED <<args, orchVars, scorerVars, historyVars, fetchVars>>

SpecBond == InitBond /\ [][ParseBondCall]_vars

----------------------------------------------------------------------------
\* ProjectHistoryParser.enrich_profiles: one _enrich_profile task per profile,
\* run by asyncio.gather on one event loop.  A task runs without interruption
\* from one await to the next; every task reaches its first await (the fetch
\* of the root page) before any fetch completes.

\* What the root page of a website yields: whether _fetch_url gets html, the
\* recent Texas projects counted on the page itself, the project links found
\* on it and the recent Texas projects counted in its sections.
RootPage(url) ==
  CASE url = "https://www.acme.com" ->
         [html |-> TRUE, recent |-> 0,
          links |-> <<"https://www.acme.com/projects">>, sections |-> 0]
    [] url = "https://bolt-plumbing.com" ->
         [html |-> TRUE, recent |-> 0, links |-> <<>>, sections |-> 2]
    [] OTHER -> [html |-> FALSE, recent |-> 0, links |-> <<>>, sections |-> 0]

\* _process_project_page on a fetched page: tx_recent_count is 1 for a page
\* with project keywords, Texas content and a recent year, else 0.
PageRecent(link) ==
  IF link = "https://www.acme.com/projects" THEN 1 ELSE 0

\* Verified profiles as enrich_profiles gets them.
EnrichPool ==
  {VerifyProfile(profile) : profile \in VerifyPool}

NewTask ==
  [pc |-> "start", tx_recent_count |-> 0, links |-> <<>>]

InitEnrich ==
  /\ OrchestratorIdle
  /\ ScorerIdle
  /\ FetchIdle
  /\ opPc = "enrich_profiles"
  /\ \E profiles \in UNION {[1..n -> EnrichPool] : n \in 0..MaxProfiles} :
       /\ args = [method |-> "enrich_profiles", profiles |-> profiles]
       /\ enProfiles = profiles
       /\ enTask = [i \in 1..Len(profiles) |-> NewTask]
  /\ ret = <<>>
  /\ processed_urls = {}

SetCountOne(i, count) ==
  enProfiles' = [enProfiles EXCEPT
                   ![i].tx_projects_past_5yrs = Some(IF count > 0 THEN 1 ELSE 0)]

\* profile["tx_projects_past_5yrs"] = count
SetCount(i, count) ==
  enProfiles' = [enProfiles EXCEPT ![i].tx_projects_past_5yrs = Some(count)]

\* _enrich_profile up to its first await: processed_urls is replaced by a new
\* set, then _fetch_url adds the root url and waits for the response.
StartTask(i) ==
  /\ opPc = "enrich_profiles"
  /\ enTask[i].pc = "start"
  /\ \A j \in 1..(i - 1) : enTask[j].pc # "start"
  /\ IF enProfiles[i].website = ""
     THEN /\ SetCount(i, 0)
          /\ enTask' = [enTask EXCEPT ![i].pc = "done"]
          /\ UNCHANGED processed_urls
     ELSE /\ processed_urls' = {enProfiles[i].website}
          /\ enTask' = [enTask EXCEPT ![i].pc = "root"]
          /\ UNCHANGED enProfiles
  /\ UNCHANGED <<opPc, args, ret, orchVars, scorerVars, fetchVars>>

\* The root page arrived: without html the count is 0; else the projects of
\* the page are counted and one _process_project_page per link is gathered.
RootFetched(i) ==
  /\ opPc = "enrich_profiles"
  /\ enTask[i].pc = "root"
  /\ \A j \in 1..Len(enTask) : enTask[j].pc # "start"
  /\ LET page == RootPage(enProfiles[i].website)
     IN IF ~page.html
        THEN /\ SetCount(i, 0)
             /\ enTask' = [enTask EXCEPT ![i].pc = "done"]
        ELSE /\ enTask' = [enTask EXCEPT ![i] =
                             [pc |-> "links", tx_recent_count |-> page.recent,
                              links |-> page.links]]
             /\ UNCHANGED enProfiles
  /\ UNCHANGED <<opPc, args, ret, processed_urls, orchVars, scorerVars, fetchVars>>

\* _process_project_page of the next link: _fetch_url returns None for a url
\* in processed_urls, else it adds the url and fetches the page.
ProcessProjectPage(i) ==
  /\ opPc = "enrich_profiles"
  /\ enTask[i].pc = "links"
  /\ enTask[i].links # <<>>
  /\ LET link == Head(enTask[i].links)
         recent_count == IF link \in processed_urls THEN 0 ELSE PageRecent(link)
     IN /\ processed_urls' = processed_urls \cup {link}
        /\ enTask' = [enTask EXCEPT
                        ![i].links = Tail(enTask[i].links),
                        ![i].tx_recent_count = enTask[i].tx_recent_count + recent_count]
  /\ UNCHANGED <<opPc, args, ret, enProfiles, orchVars, scorerVars, fetchVars>>

\* The links are done: with no recent project so far the sections of the root
\* page are counted; the count is written to the profile.
FinishTask(i) ==
  /\ opPc = "enrich_profiles"
  /\ enTask[i].pc = "links"
  /\ enTask[i].links = <<>>
  /\ LET found == enTask[i].tx_recent_count
         tx_recent_count == IF found = 0
                            THEN RootPage(enProfiles[i].website).sections ELSE found
     IN /\ SetCount(i, IF tx_recent_count > 0 THEN Max(1, tx_recent_count) ELSE 0)
        /\ enTask' = [enTask EXCEPT ![i].pc = "done",
                                    ![i].tx_recent_count = tx_recent_count]
  /\ UNCHANGED <<opPc, args, ret, processed_urls, orchVars, scorerVars, fetchVars>>

\* gather returned every profile: the compliant ones are returned ([] at once
\* for no profiles).
ReturnCompliant ==
  /\ opPc = "enrich_profiles"
  /\ \A i \in 1..Len(enTask) : enTask[i].pc = "done"
  /\ ret' = [profiles |-> CompliantProfiles(enProfiles), path |-> "return"]
  /\ opPc' = "returned"
  /\ UNCHANGED <<args, historyVars, orchVars, scorerVars, fetchVars>>

\* The try block raised, before the tasks were made or after they were
\* gathered: the handler sets every count to 0 and returns its argument.
InternalError ==
  /\ opPc = "enrich_profiles"
  /\ enProfiles # <<>>
  /\ \/ \A i \in 1..Len(enTask) : enTask[i].pc = "start"
     \/ \A i \in 1..Len(enTask) : enTask[i].pc = "done"
  /\ enProfiles' = ZeroCounts(enProfiles)
  /\ ret' = [profiles |-> enProfiles', path |-> "handler"]
  /\ opPc' = "returned"
  /\ UNCHANGED <<args, enTask, processed_urls, orchVars, scorerVars, fetchVars>>

NextEnrich ==
  \/ \E i \in 1..Len(enTask) : StartTask(i)
  \/ \E i \in 1..Len(enTask) : RootFetched(i)
  \/ \E i \in 1..Len(enTask) : ProcessProjectPage(i)
  \/ \E i \in 1..Len(enTask) : FinishTask(i)
  \/ ReturnCompliant
  \/ InternalError

SpecEnrich == InitEnrich /\ [][NextEnrich]_vars

----------------------------------------------------------------------------
\* The page fetches of extract_profiles (_process_url_with_rate_limit) and of
\* enrich_profiles (_fetch_url): each is "async with self.semaphore" around
\* client.get, the semaphore made with max_concurrent_requests permits.

MaxFetches == 3
MaxPermits == 2

LockedNever(value) == FALSE

\* asyncio.Semaphore.locked(): acquire waits while no permit is left.
Locked(value) == value = 0

InitFetch ==
  /\ OrchestratorIdle
  /\ ScorerIdle
  /\ HistoryIdle
  /\ opPc = "fetching"
  /\ \E method \in {"_process_url_with_rate_limit", "_fetch_url"} :
       \E max_concurrent_requests \in 1..MaxPermits : \E n \in 0..MaxFetches :
         /\ args = [method |-> method,
                    max_concurrent_requests |-> max_concurrent_requests]
         /\ semaphore = max_concurrent_requests
         /\ fetchPc = [i \in 1..n |-> "start"]
  /\ ret = <<>>

\* The task of a fetch reaches "async with self.semaphore".
EnterFetch(i) ==
  /\ fetchPc[i] = "start"
  /\ fetchPc' = [fetchPc EXCEPT ![i] = "acquire"]
  /\ UNCHANGED <<semaphore, callVars, orchVars, scorerVars, historyVars>>

\* __aenter__: a permit is taken and client.get is awaited.
AcquireFetch(i) ==
  /\ fetchPc[i] = "acquire"
  /\ ~Locked(semaphore)
  /\ semaphore' = semaphore - 1
  /\ fetchPc' = [fetchPc EXCEPT ![i] = "get"]
  /\ UNCHANGED <<callVars, orchVars, scorerVars, historyVars>>

\* client.get returned or raised: __aexit__ gives the permit back.
ReleaseFetch(i) ==
  /\ fetchPc[i] = "get"
  /\ semaphore' = semaphore + 1
  /\ fetchPc' = [fetchPc EXCEPT ![i] = "done"]
  /\ UNCHANGED <<callVars, orchVars, scorerVars, historyVars>>

NextFetch ==
  \/ \E i \in 1..Len(fetchPc) : EnterFetch(i)
  \/ \E i \in 1..Len(fetchPc) : AcquireFetch(i)
  \/ \E i \in 1..Len(fetchPc) : ReleaseFetch(i)

SpecFetch == InitFetch /\ [][NextFetch]_vars

----------------------------------------------------------------------------
\* Claims about execute_research

WasCalled(stage) == \E i \in 1..Len(called) : called[i] = stage

\* C1: whenever History returns an empty list for a non-empty list of verified
\* profiles, Scoring is run on the verified profiles (the list before the
\* filter), and the run does not return an empty list because of the filter.
HistoryEmptyFallsBack ==
  outcome["history"] = "empty" =>
    /\ stageInput["history"] # <<>>
    /\ enriched_profiles = verified_profiles
    /\ Len(enriched_profiles) = Len(stageInput["history"])
    /\ pc \in {"scoring", "done"}
    /\ pc = "done" =>
         /\ WasCalled("scoring")
         /\ stageInput["scoring"] = verified_profiles
         /\ outcome["scoring"] # "raise" => results # <<>>

HistoryEmptyWitness ==
  /\ pc = "done"
  /\ outcome["history"] = "empty"
  /\ Len(stageInput["history"]) = 2
  /\ Len(results) = 2

\* C2: if Discovery or Extraction produces no result or raises, the run returns
\* the empty list and no later stage is started.
ShortCircuitOnEmpty ==
  /\ outcome["discovery"] \in {"empty", "raise"} =>
       /\ pc = "done"
       /\ results = <<>>
       /\ called = <<"discovery">>
  /\ outcome["extraction"] \in {"empty", "raise"} =>
       /\ pc = "done"
       /\ results = <<>>
       /\ \A i \in 1..Len(called) : called[i] \in {"discovery", "extraction"}

ShortCircuitWitness ==
  /\ pc = "done"
  /\ outcome["discovery"] = "ok"
  /\ outcome["extraction"] = "raise"
  /\ called = <<"discovery", "extraction">>

\* C3: if Verification or History raises, the next stage receives the list the
\* failing stage was called with, the profiles unchanged, and the run goes on to
\* Scoring.
DegradePassesInputUnchanged ==
  /\ (outcome["verification"] = "raise" /\ WasCalled("history")) =>
       stageInput["history"] = stageInput["verification"]
  /\ (outcome["history"] = "raise" /\ WasCalled("scoring")) =>
       stageInput["scoring"] = stageInput["history"]
  /\ (pc = "done" /\ "raise" \in {outcome["verification"], outcome["history"]}) =>
       WasCalled("scoring")

ResultsRanked ==
  pc = "done" =>
    \A i \in 1..(Len(results) - 1) : results[i].score >= results[i + 1].score

ResultsRankedWitness ==
  /\ pc = "done"
  /\ Len(results) = 2
  /\ results[1].score > results[2].score
  /\ results[1].website = stageInput["scoring"][2].website

\* C6: every returned result has a non-empty website; a profile without website
\* is not in the output.
ResultsHaveWebsite ==
  pc = "done" =>
    /\ \A i \in 1..Len(results) : results[i].website # ""
    /\ outcome["scoring"] # "raise" =>
         Len(results) = Cardinality({j \in 1..Len(stageInput["scoring"]) :
                                       stageInput["scoring"][j].website # ""})

ResultsHaveWebsiteWitness ==
  /\ pc = "done"
  /\ Len(results) = 1
  /\ Len(stageInput["scoring"]) = 2
  /\ \E j \in 1..2 : stageInput["scoring"][j].website = ""

\* The profile a result was made of: the one with its website.
SourceProfiles(result) ==
  {stageInput["scoring"][j] : j \in {k \in 1..Len(stageInput["scoring"]) :
                                      stageInput["scoring"][k].website = result.website}}

\* C7 (as stated): the score of a result is the weighted total of
\* SubcontractorScorer for its profile, 100 * (0.30 experience + 0.25 license
\* + 0.20 bonding + 0.15 geography + 0.10 reputation).
ScoreIsScorerTotal ==
  (pc = "done" /\ request.min_bond > 0) =>
    \A i \in 1..Len(results) :
      \A profile \in SourceProfiles(results[i]) :
        results[i].score * TotalDen(ConfigOf(request))
          = ComputeTotalScore(
              CalculateScoreBreakdown(DictToCandidate(profile), ConfigOf(request)),
              ConfigOf(request))

\* The points _calculate_score documents: location (state 20, city 10 more),
\* license (active 20, a known number 10), bonding (30, 15 from half of
\* min_bond, 5 below), projects (5 each up to 20), keywords (2 each up to 10),
\* at most 100.
DocumentedPoints(profile, req) ==
  LET sameState == /\ profile.state # "" /\ req.state # ""
                   /\ Upper(profile.state) = Upper(req.state)
      sameCity == /\ profile.city # "" /\ req.city # ""
                  /\ Lower(profile.city) = Lower(req.city)
      location == IF sameState THEN (IF sameCity THEN 30 ELSE 20) ELSE 0
      license == IF profile.lic_active THEN 20
                 ELSE IF profile.lic_number \notin {"", "Unknown"} THEN 10 ELSE 0
      bond == IF IsSome(profile.bond_amount) THEN Val(profile.bond_amount) ELSE 0
      bonding == IF bond = 0 \/ req.min_bond = 0 THEN 0
                 ELSE IF bond >= req.min_bond THEN 30
                 ELSE IF 2 * bond >= req.min_bond THEN 15
                 ELSE IF bond > 0 THEN 5 ELSE 0
      count == IF IsSome(profile.tx_projects_past_5yrs)
               THEN Val(profile.tx_projects_past_5yrs) ELSE profile.projects
      projects == IF count >= 4 THEN 20 ELSE 5 * count
      text == NameWords(profile.business_name) \cup profile.evidence_text
      hits == {i \in 1..Len(req.keywords) :
                 req.keywords[i] # "" /\ Lower(req.keywords[i]) \in text}
      keywords == IF Cardinality(hits) >= 5 THEN 10 ELSE 2 * Cardinality(hits)
      sum == location + license + bonding + projects + keywords
  IN IF sum > 100 THEN 100 ELSE sum

\* C7 (amended): the score of a result is the value of the orchestrator's own
\* _calculate_score for its profile and the request (DocumentedPoints).
ScoreIsCalculateScore ==
  pc = "done" =>
    \A i \in 1..Len(results) :
      \A profile \in SourceProfiles(results[i]) :
        results[i].score = DocumentedPoints(profile, request)

ScoreIsCalculateScoreWitness ==
  /\ pc = "done"
  /\ \E i \in 1..Len(results) : results[i].score = 100
  /\ \E i \in 1..Len(results) : results[i].score = 0

----------------------------------------------------------------------------
\* Claims about SubcontractorScorer

\* C8: calculate_scores scores every candidate and drops none: the returned list
\* has one scored entry for each input candidate.
AllCandidatesScored ==
  scPc = "done" => Len(scRanked) = Len(scCandidates)

\* C9: for every candidate the total score is between 0 and 100.
TotalScoreInRange ==
  scPc = "total" =>
    /\ scTotal >= 0
    /\ scTotal <= 100 * TotalDen(scConfig)

\* C11: in the list _rank_candidates returns, of two candidates with equal total
\* score and different bond_amount the one with the higher bond_amount is first.
HigherBondFirstOnTie ==
  scPc = "ranked" =>
    \A i \in 1..Len(scRanked) : \A j \in (i + 1)..Len(scRanked) :
      (/\ scRanked[i].score = scRanked[j].score
       /\ scRanked[i].candidate.bond_amount # scRanked[j].candidate.bond_amount)
        => scRanked[i].candidate.bond_amount > scRanked[j].candidate.bond_amount

\* C12: the license component is 0 for an inactive license, and for an active
\* one with 0 to 365 days until expiry, fewer days never give a higher component.
LicenseScoreMonotone ==
  scPc = "breakdown" =>
    LET c == scCandidates[1]
    IN /\ ~c.lic_active => scBreakdown.license = 0
       /\ (c.lic_active /\ c.days_until_expiry \in 0..365) =>
            \A days \in (c.days_until_expiry + 1)..365 :
              scBreakdown.license
                <= ScorerLicenseScore([c EXCEPT !.days_until_expiry = days])

----------------------------------------------------------------------------
\* Claims about DiscoveryService

\* C13: for a request whose trade, city and state are all blank,
\* find_subcontractors returns the empty list and calls no search engine.
BlankRequestNoSearch ==
  (/\ opPc = "returned"
   /\ args.method = "find_subcontractors"
   /\ args.trade = "" /\ args.city = "" /\ args.state = "") =>
    /\ ret.candidates = <<>>
    /\ ret.searched = <<>>

\* scheme and domain of a url, a leading www. stripped
RootDomain(url) ==
  CASE url = "https://www.acme.com" -> "https://acme.com"
    [] url = "https://acme.com/about" -> "https://acme.com"
    [] OTHER -> url

\* C14: no two candidates returned by one run of find_subcontractors have the
\* same normalized root domain.
UniqueRootDomain ==
  (opPc = "returned" /\ args.method = "find_subcontractors") =>
    \A i \in 1..Len(ret.candidates) : \A j \in 1..Len(ret.candidates) :
      i # j => RootDomain(ret.candidates[i]) # RootDomain(ret.candidates[j])

----------------------------------------------------------------------------
\* Claims about SubcontractorExtractor

\* C15: every profile in the list extract_profiles returns has a non-empty
\* business_name and a non-empty website.
ExtractedProfilesNamed ==
  (opPc = "returned" /\ args.method = "extract_profiles") =>
    \A i \in 1..Len(ret.profiles) :
      /\ ret.profiles[i].business_name # ""
      /\ ret.profiles[i].website # ""

----------------------------------------------------------------------------
\* Claims about LicenseVerifier

\* The keys a profile has before verification.
ExtractedKeys ==
  {"business_name", "website", "hq_address", "city", "state", "licensing_text",
   "bond_amount", "projects", "evidence_text", "tx_projects_past_5yrs"}

\* C16: verify_batch returns a list as long as its input whose i-th element is
\* the i-th profile, its fields kept, with lic_active, lic_number,
\* lic_match_score and lic_expiry_date added, also where nothing matched or
\* matching raised.
VerifyBatchAugments ==
  (opPc = "returned" /\ args.method = "verify_batch") =>
    /\ Len(ret) = Len(args.profiles)
    /\ \A i \in 1..Len(ret) :
         /\ \A k \in ExtractedKeys : ret[i][k] = args.profiles[i][k]
         /\ ret[i].lic_number # ""
         /\ IsSome(ret[i].lic_expiry_date)

----------------------------------------------------------------------------
\* Claims about ProjectHistoryParser

\* C17: every profile in the list enrich_profiles returns has
\* tx_projects_past_5yrs > 0, on every return path.
ReturnedProfilesCompliant ==
  (opPc = "returned" /\ args.method = "enrich_profiles") =>
    \A i \in 1..Len(ret.profiles) : IsCompliant(ret.profiles[i])

\* The count of a profile enriched alone: the recent projects of the root page
\* and of every linked page, or those of the sections when there are none.
CountAlone(website) ==
  LET page == RootPage(website)
      linked == Cardinality({k \in 1..Len(page.links) : PageRecent(page.links[k]) = 1})
  IN IF website = "" \/ ~page.html THEN 0
     ELSE IF page.recent + linked > 0 THEN page.recent + linked
     ELSE page.sections

\* C18: the count enrich_profiles writes for a profile is the count the profile
\* gets when it is enriched alone, whatever its siblings in the batch are and
\* however the tasks interleave.
CountIndependentOfSiblings ==
  (opPc = "returned" /\ args.method = "enrich_profiles" /\ ret.path = "return") =>
    \A i \in 1..Len(enProfiles) :
      enProfiles[i].tx_projects_past_5yrs = Some(CountAlone(enProfiles[i].website))

----------------------------------------------------------------------------
\* Claims about _format_results

\* The result record holds the documented default for every attribute the
\* profile lacks.
DefaultsFilled(profile, result) ==
  /\ profile.business_name = "" => result.name = ""
  /\ profile.city = "" => result.city = ""
  /\ profile.state = "" => result.state = ""
  /\ (profile.lic_number = "" /\ profile.licensing_text = "") => result.lic_number = ""
  /\ profile.bond_amount = None => result.bond_amount = 0
  /\ profile.tx_projects_past_5yrs = None => result.tx_projects_past_5yrs = 0

\* C19: the result of a profile that lacks an attribute has lic_active = FALSE,
\* 0 for a missing numeric field and "" for a missing string field.
MissingFieldsDefault ==
  (pc = "done" /\ outcome["scoring"] # "raise") =>
    \A j \in 1..Len(stageInput["scoring"]) :
      LET profile == stageInput["scoring"][j]
      IN profile.website # "" =>
           \E i \in 1..Len(results) :
             /\ results[i].website = profile.website
             /\ results[i].evidence_url = profile.website
             /\ DefaultsFilled(profile, results[i])

----------------------------------------------------------------------------
\* Claims about _normalize_phone

RECURSIVE DigitsOf(_)
\* The digits of a text, in order.
DigitsOf(text) ==
  IF text = <<>> THEN <<>>
  ELSE IF Head(text) \in DigitChars THEN <<Head(text)>> \o DigitsOf(Tail(text))
  ELSE DigitsOf(Tail(text))

\* "(NNN) NNN-NNNN" of ten digits.
TenDigitForm(d) ==
  <<"(">> \o SubSeq(d, 1, 3) \o <<")", " ">> \o SubSeq(d, 4, 6) \o <<"-">>
    \o SubSeq(d, 7, 10)

\* C20: _normalize_phone returns "(NNN) NNN-NNNN" of the digits for exactly 10
\* digits, the same form of the last 10 digits for exactly 11 digits starting
\* with 1, and its input unchanged for every other number of digits.
PhoneNormalized ==
  (opPc = "returned" /\ args.method = "_normalize_phone") =>
    LET d == DigitsOf(args.phone)
    IN /\ Len(d) = 10 => ret = TenDigitForm(d)
       /\ (Len(d) = 11 /\ d[1] = "1") => ret = TenDigitForm(Tail(d))
       /\ Len(d) \notin {10, 11} => ret = args.phone

PhoneNormalizedWitness ==
  /\ opPc = "returned"
  /\ args.method = "_normalize_phone"
  /\ args.phone = <<"+", "1", "5", "5", "5", "1", "2", "3", "4", "5", "6", "7">>
  /\ ret = <<"(", "5", "5", "5", ")", " ", "1", "2", "3", "-", "4", "5", "6", "7">>

----------------------------------------------------------------------------
\* Claims about _parse_bond

\* The factor the unit stands for, in any casing the pattern accepts.
UnitFactor(unit) ==
  CASE unit \in {"million", "Million", "MILLION", "M", "m"} -> 1000000
    [] unit \in {"thousand", "Thousand", "K", "k"} -> 1000
    [] OTHER -> 1

\* C21: _parse_bond returns None without an amount followed by bond, else the
\* amount times 1,000,000 for million or M, times 1,000 for thousand or K and
\* times 1 without unit, for every unit spelling the bond pattern accepts.
BondAmountScaled ==
  (opPc = "returned" /\ args.method = "_parse_bond") =>
    IF ~args.text.bond THEN ret = None
    ELSE ret = Some((args.text.halves * UnitFactor(args.text.unit)) \div 2)

----------------------------------------------------------------------------
\* Claims about the phases after Extraction

\* C22: once Extraction has returned a non-empty list, no empty result and no
\* exception of Verification or History makes execute_research return early:
\* it goes on to Scoring, which is run on a non-empty list.
ScoringAlwaysRun ==
  outcome["extraction"] = "ok" =>
    /\ pc \in {"verification", "history", "scoring", "done"}
    /\ pc # "done" => ENABLED Next
    /\ pc = "done" => WasCalled("scoring")
    /\ WasCalled("scoring") => stageInput["scoring"] # <<>>

ScoringAlwaysRunWitness ==
  /\ pc = "done"
  /\ outcome["extraction"] = "ok"
  /\ outcome["verification"] = "raise"
  /\ outcome["history"] = "empty"
  /\ WasCalled("scoring")
  /\ stageInput["scoring"] # <<>>

----------------------------------------------------------------------------
\* Claims about failed fetches in extract_profiles

\* C23: a url whose fetch fails contributes no profile to the output of
\* extract_profiles: every returned profile of a url that was not in the cache
\* comes from a page fetched with status 200.
FailedFetchDropped ==
  (opPc = "returned" /\ args.method = "extract_profiles") =>
    \A i \in 1..Len(ret.profiles) :
      LET url == ret.profiles[i].website
      IN CacheKey(url) \notin DOMAIN args.cache => args.fetch[url].status = 200

\* C24: the result cache only holds profiles extracted from a fetched page:
\* every entry a call adds is the profile of a url fetched with status 200.
CacheHoldsFetchedOnly ==
  (opPc = "returned" /\ args.method = "extract_profiles") =>
    \A k \in DOMAIN ret.cache \ DOMAIN args.cache :
      /\ args.fetch[ret.cache[k].website].status = 200
      /\ ret.cache[k] # CreateMinimalProfile(ret.cache[k].website)

----------------------------------------------------------------------------
\* Claims about the concurrency limit

\* The fetches that hold a permit and wait for client.get.
InFlight == {i \in 1..Len(fetchPc) : fetchPc[i] = "get"}

\* C25: at every moment of an extract_profiles call and of an enrich_profiles
\* call the number of fetches in flight is at most max_concurrent_requests.
FetchesBounded ==
  opPc = "fetching" => Cardinality(InFlight) <= args.max_concurrent_requests

FetchesBoundedWitness ==
  /\ opPc = "fetching"
  /\ args.method = "_fetch_url"
  /\ Cardinality(InFlight) = args.max_concurrent_requests
  /\ \E i \in 1..Len(fetchPc) : fetchPc[i] = "acquire"

----------------------------------------------------------------------------
\* Claims about license matching

\* The license number a licensing text states after "license number".
StatedLicense(license_text) ==
  IF Len(license_text) > 15 /\ SubSeq(license_text, 1, 15) = "license number "
  THEN SubSeq(license_text, 16, Len(license_text)) ELSE ""

\* The rows of the registry with the given license number.
RowsNumbered(number) ==
  {row \in 1..Len(Registry) : Registry[row].LICENSE_NUMBER = number}

\* C26: when licensing_text states a license number that is in the registry's
\* index, the exact lookup comes before any fuzzy name match: the result has
\* lic_match_score 100 and the registry row of that license number.
ExactLookupFirst ==
  (opPc = "returned" /\ args.method = "verify_batch") =>
    \A i \in 1..Len(ret) :
      LET stated == StatedLicense(args.profiles[i].licensing_text)
      IN (~args.raises[i] /\ args.profiles[i].business_name # ""
            /\ RowsNumbered(stated) # {}) =>
           /\ ret[i].lic_match_score = 100
           /\ ret[i].lic_number = stated

\* The calendar date each registry row expires on, None where the cell holds
\* no date.
RowExpiry ==
  <<Some(<<2031, 1, 31>>), Some(<<2020, 6, 30>>), Some(<<2026, 11, 5>>),
    None, None, Some(<<2031, 1, 31>>)>>

\* C27: for every profile verify_batch returns, lic_match_score is 0 or at
\* least 85; it is at least 85 only when a registry row was matched, and when
\* it is 0 the profile has lic_active false and lic_number "Unknown".
MatchScoreThreshold ==
  (opPc = "returned" /\ args.method = "verify_batch") =>
    \A i \in 1..Len(ret) :
      /\ ret[i].lic_match_score = 0 \/ ret[i].lic_match_score >= 85
      /\ ret[i].lic_match_score >= 85 => RowsNumbered(ret[i].lic_number) # {}
      /\ ret[i].lic_match_score = 0 =>
           ~ret[i].lic_active /\ ret[i].lic_number = "Unknown"

MatchScoreThresholdWitness ==
  /\ opPc = "returned"
  /\ args.method = "verify_batch"
  /\ Len(ret) = 2
  /\ args.profiles[1].business_name = "ACME ELECTRICAL"
  /\ ret[1].lic_match_score = 92
  /\ args.profiles[2].business_name = "BOLT PLUMBERS"
  /\ ~args.raises[2]
  /\ ret[2].lic_match_score = 0

\* C28: for every profile verify_batch returns, lic_active is true exactly
\* when a registry row was matched and its expiration date is a date later
\* than today; a matched row whose date is missing, unparseable, today or past
\* gives lic_active false.
ActiveIffUnexpired ==
  (opPc = "returned" /\ args.method = "verify_batch") =>
    \A i \in 1..Len(ret) :
      ret[i].lic_active <=>
        /\ ret[i].lic_match_score > 0
        /\ \E row \in RowsNumbered(ret[i].lic_number) :
             /\ RowExpiry[row] # None
             /\ RowExpiry[row][1] # <<2026, 11, 5>>
             /\ \/ RowExpiry[row][1][1] > 2026
                \/ RowExpiry[row][1][1] = 2026 /\ RowExpiry[row][1][2] > 11
                \/ RowExpiry[row][1][1] = 2026 /\ RowExpiry[row][1][2] = 11
                     /\ RowExpiry[row][1][3] > 5

ActiveIffUnexpiredWitness ==
  /\ opPc = "returned"
  /\ args.method = "verify_batch"
  /\ Len(ret) = 2
  /\ ret[1].lic_number = "A1234"
  /\ ~ret[1].lic_active
  /\ ret[2].lic_number = "D4567"
  /\ ret[2].lic_active

----------------------------------------------------------------------------
\* Claims about the project count and the bond amount

\* C29 as stated: any nonzero number of recent projects is written as exactly 1.
CountCollapsesToOne ==
  opPc = "enrich_profiles" =>
    \A i \in 1..Len(enTask) :
      enTask[i].pc = "done" => enProfiles[i].tx_projects_past_5yrs \in {Some(0), Some(1)}

\* C29: _enrich_profile writes the number of recent projects it found as it is:
\* max(1, tx_recent_count) equals tx_recent_count for every nonzero count.
CountKept ==
  opPc = "enrich_profiles" =>
    \A i \in 1..Len(enTask) :
      enTask[i].pc = "done" =>
        enProfiles[i].tx_projects_past_5yrs = Some(enTask[i].tx_recent_count)

CountKeptWitness ==
  /\ opPc = "enrich_profiles"
  /\ Len(enTask) = 1
  /\ enTask[1].pc = "done"
  /\ enTask[1].tx_recent_count = 2
  /\ enProfiles[1].tx_projects_past_5yrs = Some(2)

\* C30: the bond_amount of a result is 0 whenever the profile's bond amount is
\* unknown, whatever its other attributes and the request's min_bond are.
UnknownBondIsZero ==
  (pc = "done" /\ outcome["scoring"] # "raise") =>
    \A j \in 1..Len(stageInput["scoring"]) :
      LET profile == stageInput["scoring"][j]
      IN (profile.website # "" /\ profile.bond_amount = None) =>
           \A i \in 1..Len(results) :
             (/\ results[i].website = profile.website
              /\ results[i].name = profile.business_name) =>
               results[i].bond_amount = 0

====
